---- MODULE Spec2Model ----
(***************************************************************************)
(* Model of src/simulated_annealing.py: class SportsScheduler (round-robin *)
(* construction, schedule validation, cost model, neighbourhood generator  *)
(* and the simulated-annealing driver) and test_schedule_generation.       *)
(*                                                                         *)
(* Python lists are TLA+ sequences (index k of Python is index k+1 here),  *)
(* a match (home, away) is the tuple <<home, away>>, a round is a sequence *)
(* of matches and a schedule a sequence of rounds.  Team identifiers are   *)
(* the integers of the code (0-based).  Python's None is the value None.   *)
(***************************************************************************)
EXTENDS Integers, Sequences, FiniteSets, TLC

\* Bounds of the model.
MaxBuildTeams == 10
MaxValTeams == 3
MaxSize == 4
MaxEditTeams == 4
MaxEdits == 1
MaxCostTeams == 4
MaxTeams == 4
MaxIterations == 2
MaxTemp == 1
RateDen == 2
MaxNeighborTeams == 4

\* max_attempts of the cross-round swap.
max_attempts == 20

None == -1

Tiers == {"S", "M", "W"}

\* costs=None: the default cost table of __init__.
DefaultCosts ==
    [t \in Tiers |-> IF t = "S" THEN <<16, 4, 4, 2>>
                     ELSE IF t = "M" THEN <<32, 8, 8, 4>>
                     ELSE <<48, 12, 12, 6>>]

\* A caller-supplied cost table (the costs argument) whose four entries differ.
CustomCosts ==
    [t \in Tiers |-> IF t = "S" THEN <<1, 2, 3, 5>>
                     ELSE IF t = "M" THEN <<7, 11, 13, 17>>
                     ELSE <<19, 23, 29, 31>>]

CostTables == {DefaultCosts, CustomCosts}

\* teams_strength=None: ['S'] * 5 + ['M'] * 6 + ['W'] * 7.
DefaultStrength ==
    [k \in 1..18 |-> IF k <= 5 THEN "S" ELSE IF k <= 11 THEN "M" ELSE "W"]

\* ['S'] * s + ['M'] * m + ['W'] * (n - s - m), the way the callers build tiers.
BlockStrength(n, s, m) ==
    [k \in 1..n |-> IF k <= s THEN "S" ELSE IF k <= s + m THEN "M" ELSE "W"]

\* The tier lists given to the searches: no, half or all teams Strong, and
\* none or half of them Medium.
BlockStrengths(n) ==
    {BlockStrength(n, s, m) : s \in {0, n \div 2, n}, m \in {0, n \div 2}}

-----------------------------------------------------------------------------
(* initialize_schedule: the circle method.                                 *)

\* n after "if is_odd: n += 1".
WorkingCount(nt) == IF nt % 2 = 1 THEN nt + 1 ELSE nt

\* teams = list(range(n)).
RangeList(n) == [k \in 1..n |-> k - 1]

\* A rotation that also moves the first team (a mutant of Rotate).
RotateAll(ts) ==
    IF Len(ts) < 2 THEN ts
    ELSE <<ts[Len(ts)]>> \o SubSeq(ts, 1, Len(ts) - 1)

\* teams = [teams[0]] + [teams[-1]] + teams[1:-1].
Rotate(ts) ==
    IF Len(ts) < 2 THEN ts
    ELSE <<ts[1], ts[Len(ts)]>> \o SubSeq(ts, 2, Len(ts) - 1)

\* One pass of the inner loop body for index i: the match is appended unless
\* it involves the dummy team.
WithMatch(rm, ts, n, i, nt) ==
    LET home_team == ts[i + 1]
        away_team == ts[n - i]
    IN  IF home_team < nt /\ away_team < nt
        THEN Append(rm, <<home_team, away_team>>)
        ELSE rm

RECURSIVE RoundOf(_, _, _, _, _)
\* The inner loop from index i on, started with round_matches = rm.
RoundOf(rm, ts, n, i, nt) ==
    IF i >= n \div 2 THEN rm
    ELSE RoundOf(WithMatch(rm, ts, n, i, nt), ts, n, i + 1, nt)

RECURSIVE RoundsFrom(_, _, _, _, _)
\* The outer loop from round_num = r on, started with schedule = sch.
RoundsFrom(sch, ts, n, r, nt) ==
    IF r >= n - 1 THEN sch
    ELSE RoundsFrom(Append(sch, RoundOf(<<>>, ts, n, 0, nt)), Rotate(ts), n, r + 1, nt)

initialize_schedule(nt) ==
    RoundsFrom(<<>>, RangeList(WorkingCount(nt)), WorkingCount(nt), 0, nt)

-----------------------------------------------------------------------------
(* get_opponent and evaluate_cost.                                         *)

InMatch(team, match) == match[1] = team \/ match[2] = team

RECURSIVE OpponentFrom(_, _, _)
OpponentFrom(team, rm, k) ==
    IF k > Len(rm) THEN None
    ELSE IF InMatch(team, rm[k])
         THEN (IF rm[k][2] = team THEN rm[k][1] ELSE rm[k][2])
         ELSE OpponentFrom(team, rm, k + 1)

get_opponent(team, rm) == OpponentFrom(team, rm, 1)

\* The if / elif chain of evaluate_cost with the middle entries exchanged
\* (a mutant of PatternCost).
PatternCostSwapped(ts, cur, nxt, ct) ==
    IF cur = "S" /\ nxt = "S" THEN ct[ts][1]
    ELSE IF cur = "S" /\ nxt = "M" THEN ct[ts][3]
    ELSE IF cur = "M" /\ nxt = "S" THEN ct[ts][2]
    ELSE IF cur = "M" /\ nxt = "M" THEN ct[ts][4]
    ELSE 0

\* The if / elif chain of evaluate_cost: the amount one adjacency adds for a
\* team of strength ts whose opponents have strengths cur and nxt.
PatternCost(ts, cur, nxt, ct) ==
    IF cur = "S" /\ nxt = "S"
    THEN (IF ts = "S" THEN ct["S"][1] ELSE IF ts = "M" THEN ct["M"][1] ELSE ct["W"][1])
    ELSE IF cur = "S" /\ nxt = "M"
    THEN (IF ts = "S" THEN ct["S"][2] ELSE IF ts = "M" THEN ct["M"][2] ELSE ct["W"][2])
    ELSE IF cur = "M" /\ nxt = "S"
    THEN (IF ts = "S" THEN ct["S"][3] ELSE IF ts = "M" THEN ct["M"][3] ELSE ct["W"][3])
    ELSE IF cur = "M" /\ nxt = "M"
    THEN (IF ts = "S" THEN ct["S"][4] ELSE IF ts = "M" THEN ct["M"][4] ELSE ct["W"][4])
    ELSE 0

\* The body of the inner loop of evaluate_cost for one team and one r
\* (r is the 0-based round index of the code).
AdjacencyCost(team, r, sch, st, ct) ==
    LET current_opponent == get_opponent(team, sch[r + 1])
        next_opponent == get_opponent(team, sch[r + 2])
    IN  IF current_opponent = None \/ next_opponent = None THEN 0
        ELSE PatternCost(st[team + 1], st[current_opponent + 1],
                         st[next_opponent + 1], ct)

RECURSIVE TeamCostFrom(_, _, _, _, _)
\* The inner loop of evaluate_cost for one team, from r on.
TeamCostFrom(team, r, sch, st, ct) ==
    IF r >= Len(sch) - 1 THEN 0
    ELSE AdjacencyCost(team, r, sch, st, ct) + TeamCostFrom(team, r + 1, sch, st, ct)

RECURSIVE CostFrom(_, _, _, _, _)
\* The outer loop of evaluate_cost, from team on.
CostFrom(team, sch, nt, st, ct) ==
    IF team >= nt THEN 0
    ELSE TeamCostFrom(team, 0, sch, st, ct) + CostFrom(team + 1, sch, nt, st, ct)

evaluate_cost(sch, nt, st, ct) == CostFrom(0, sch, nt, st, ct)

-----------------------------------------------------------------------------
(* is_valid_schedule.                                                      *)

\* team_count.get(team, 0): the occurrences of team among the slots of a round.
TeamCount(team, rm) ==
    Cardinality({ks \in (1..Len(rm)) \X {1, 2} : rm[ks[1]][ks[2]] = team})

\* First loop: each team should appear exactly once in each round.
EachTeamOncePerRound(sch, nt) ==
    \A r \in 1..Len(sch) : \A team \in 0..(nt - 1) : TeamCount(team, sch[r]) = 1

\* tuple(sorted(match)).
sorted_match(match) ==
    IF match[1] <= match[2] THEN match ELSE <<match[2], match[1]>>

\* The positions (round, match) of a schedule, in the order the loops visit them.
Positions(sch) ==
    UNION {{<<r, k>> : k \in 1..Len(sch[r])} : r \in 1..Len(sch)}

\* Second loop: no sorted match is met twice.
NoRepeatedMatch(sch) ==
    \A p, q \in Positions(sch) :
        p # q => sorted_match(sch[p[1]][p[2]]) # sorted_match(sch[q[1]][q[2]])

played_matches(sch) ==
    {sorted_match(sch[p[1]][p[2]]) : p \in Positions(sch)}

\* A validator that skips the per-round count (a mutant of is_valid_schedule).
is_valid_schedule_pairs_only(sch, nt) ==
    /\ NoRepeatedMatch(sch)
    /\ Cardinality(played_matches(sch)) = (nt * (nt - 1)) \div 2

is_valid_schedule(sch, nt) ==
    /\ EachTeamOncePerRound(sch, nt)
    /\ NoRepeatedMatch(sch)
    /\ Cardinality(played_matches(sch)) = (nt * (nt - 1)) \div 2

-----------------------------------------------------------------------------
VARIABLES
    pc,               \* the position of the running call
    num_teams,        \* self.num_teams
    teams_strength,   \* self.teams_strength
    costs,            \* self.costs
    schedule,         \* self.schedule (the schedule under construction while building)
    n,                \* initialize_schedule: n
    teams,            \* initialize_schedule: teams
    round_num,        \* initialize_schedule: round_num
    bi,               \* initialize_schedule: i
    round_matches,    \* initialize_schedule: round_matches
    valid,            \* the last result of is_valid_schedule
    cost,             \* the last result of evaluate_cost
    edits,            \* input generation: matches replaced so far
    initial_temp,     \* simulated_annealing: initial_temp
    cooling_rate,     \* simulated_annealing: cooling_rate, the fraction <<p, q>>
    iterations,       \* simulated_annealing: iterations
    current_schedule, \* simulated_annealing: current_schedule
    current_cost,     \* simulated_annealing: current_cost
    best_schedule,    \* simulated_annealing: best_schedule
    best_cost,        \* simulated_annealing: best_cost
    temp,             \* simulated_annealing: temp, the fraction <<p, q>>
    it,               \* simulated_annealing: the passes of the loop begun so far
    new_schedule,     \* generate_neighbor: new_schedule
    attempts,         \* generate_neighbor: the passes of the attempt loop so far
    rebuilds,         \* simulated_annealing: calls of initialize_schedule it made
    result            \* simulated_annealing: the returned pair

buildVars == <<n, teams, round_num, bi, round_matches>>
saVars == <<initial_temp, cooling_rate, iterations, current_schedule, current_cost,
            best_schedule, best_cost, temp, it, new_schedule, attempts, rebuilds,
            result>>
vars == <<pc, num_teams, teams_strength, costs, schedule, n, teams, round_num,
          bi, round_matches, valid, cost, edits, saVars>>

\* No call of simulated_annealing is running.
NoResult == [none |-> TRUE, schedule |-> <<>>, cost |-> 0]

SAIdle ==
    /\ initial_temp = 0
    /\ cooling_rate = <<0, 1>>
    /\ iterations = 0
    /\ current_schedule = <<>>
    /\ current_cost = 0
    /\ best_schedule = <<>>
    /\ best_cost = 0
    /\ temp = <<0, 1>>
    /\ it = 0
    /\ new_schedule = <<>>
    /\ attempts = 0
    /\ rebuilds = 0
    /\ result = NoResult

-----------------------------------------------------------------------------
(* test_schedule_generation(num_teams): the constructor with its default   *)
(* arguments, then is_valid_schedule and, when valid, evaluate_cost.       *)

InitBuild ==
    /\ pc = "construct"
    /\ num_teams \in 0..MaxBuildTeams
    /\ teams_strength = DefaultStrength
    /\ costs = DefaultCosts
    /\ schedule = <<>>
    /\ n = 0
    /\ teams = <<>>
    /\ round_num = 0
    /\ bi = 0
    /\ round_matches = <<>>
    /\ valid = FALSE
    /\ cost = 0
    /\ edits = 0
    /\ SAIdle

\* __init__ up to the call, and initialize_schedule up to the outer loop.
BeginBuild ==
    /\ pc = "construct"
    /\ n' = WorkingCount(num_teams)
    /\ teams' = RangeList(WorkingCount(num_teams))
    /\ schedule' = <<>>
    /\ round_num' = 0
    /\ pc' = "round"
    /\ UNCHANGED <<saVars, num_teams, teams_strength, costs, bi, round_matches, valid, cost, edits>>

\* for round_num in range(n - 1): round_matches = [].
BeginRound ==
    /\ pc = "round"
    /\ round_num < n - 1
    /\ round_matches' = <<>>
    /\ bi' = 0
    /\ pc' = "match"
    /\ UNCHANGED <<saVars, num_teams, teams_strength, costs, schedule, n, teams, round_num,
                   valid, cost, edits>>

\* for i in range(n // 2): one pass of the body.
AddMatch ==
    /\ pc = "match"
    /\ bi < n \div 2
    /\ round_matches' = WithMatch(round_matches, teams, n, bi, num_teams)
    /\ bi' = bi + 1
    /\ UNCHANGED <<saVars, pc, num_teams, teams_strength, costs, schedule, n, teams, round_num,
                   valid, cost, edits>>

\* schedule.append(round_matches) and the rotation.
EndRound ==
    /\ pc = "match"
    /\ bi >= n \div 2
    /\ schedule' = Append(schedule, round_matches)
    /\ teams' = Rotate(teams)
    /\ round_num' = round_num + 1
    /\ pc' = "round"
    /\ UNCHANGED <<saVars, num_teams, teams_strength, costs, n, bi, round_matches, valid, cost, edits>>

\* return schedule; self.schedule = ...: the constructor returns.
EndBuild ==
    /\ pc = "round"
    /\ round_num >= n - 1
    /\ pc' = "constructed"
    /\ UNCHANGED <<saVars, num_teams, teams_strength, costs, schedule, buildVars, valid, cost, edits>>

\* valid = scheduler.is_valid_schedule(scheduler.schedule).
TestValidate ==
    /\ pc = "constructed"
    /\ valid' = is_valid_schedule(schedule, num_teams)
    /\ pc' = "validated"
    /\ UNCHANGED <<saVars, num_teams, teams_strength, costs, schedule, buildVars, cost, edits>>

\* if valid: cost = scheduler.evaluate_cost(scheduler.schedule).
TestCost ==
    /\ pc = "validated"
    /\ valid
    /\ cost' = evaluate_cost(schedule, num_teams, teams_strength, costs)
    /\ pc' = "reported"
    /\ UNCHANGED <<saVars, num_teams, teams_strength, costs, schedule, buildVars, valid, edits>>

NextBuild ==
    \/ BeginBuild
    \/ BeginRound
    \/ AddMatch
    \/ EndRound
    \/ EndBuild
    \/ TestValidate
    \/ TestCost

SpecBuild == InitBuild /\ [][NextBuild]_vars

-----------------------------------------------------------------------------
(* is_valid_schedule applied to arbitrary schedules.  The argument is      *)
(* either grown from the empty list, round by round and match by match,    *)
(* or the built schedule with some of its matches replaced.                *)

\* Every pair (a, b) of identifiers in [0, num_teams), a = b included.
Pairs(nt) == (0..(nt - 1)) \X (0..(nt - 1))

\* Every pair of identifiers in [0, num_teams]: the teams and the identifier
\* num_teams, the one initialize_schedule gives its dummy team.
IdPairs(nt) == (0..nt) \X (0..nt)

RECURSIVE MatchTotal(_, _)
MatchTotal(sch, r) ==
    IF r > Len(sch) THEN 0 ELSE Len(sch[r]) + MatchTotal(sch, r + 1)

\* The rounds plus the matches of a schedule: what MaxSize bounds.
Size(sch) == Len(sch) + MatchTotal(sch, 1)

\* sch with the match at position (r, k) replaced by m.
Replaced(sch, r, k, m) == [sch EXCEPT ![r] = [@ EXCEPT ![k] = m]]

InitValid ==
    /\ num_teams \in 0..MaxEditTeams
    /\ \/ pc = "append" /\ num_teams <= MaxValTeams /\ schedule = <<>>
       \/ pc = "edit" /\ schedule = initialize_schedule(num_teams)
    /\ teams_strength = DefaultStrength
    /\ costs = DefaultCosts
    /\ n = 0
    /\ teams = <<>>
    /\ round_num = 0
    /\ bi = 0
    /\ round_matches = <<>>
    /\ valid = FALSE
    /\ cost = 0
    /\ edits = 0
    /\ SAIdle

\* The argument gets one more (empty) round.
AppendRound ==
    /\ pc = "append"
    /\ Size(schedule) < MaxSize
    /\ schedule' = Append(schedule, <<>>)
    /\ UNCHANGED <<saVars, pc, num_teams, teams_strength, costs, buildVars, valid, cost, edits>>

\* The last round of the argument gets one more match.
AppendMatch ==
    /\ pc = "append"
    /\ Size(schedule) < MaxSize
    /\ Len(schedule) >= 1
    /\ \E m \in IdPairs(num_teams) :
          schedule' = [schedule EXCEPT ![Len(schedule)] = Append(@, m)]
    /\ UNCHANGED <<saVars, pc, num_teams, teams_strength, costs, buildVars, valid, cost, edits>>

\* One match of the argument is replaced by another pair.
ReplaceMatch ==
    /\ pc = "edit"
    /\ edits < MaxEdits
    /\ \E p \in Positions(schedule) : \E m \in Pairs(num_teams) :
          schedule' = Replaced(schedule, p[1], p[2], m)
    /\ edits' = edits + 1
    /\ UNCHANGED <<saVars, pc, num_teams, teams_strength, costs, buildVars, valid, cost>>

\* is_valid_schedule(schedule) is called and returns.
CallIsValid ==
    /\ pc \in {"append", "edit"}
    /\ valid' = is_valid_schedule(schedule, num_teams)
    /\ pc' = "checked"
    /\ UNCHANGED <<saVars, num_teams, teams_strength, costs, schedule, buildVars, cost, edits>>

NextValid ==
    \/ AppendRound
    \/ AppendMatch
    \/ ReplaceMatch
    \/ CallIsValid

SpecValid == InitValid /\ [][NextValid]_vars

-----------------------------------------------------------------------------
(* evaluate_cost applied to schedules under every tier assignment: the     *)
(* built schedule, and the built schedule with one match replaced by an    *)
(* arbitrary pair (which gives byes, repeated teams and self-matches).     *)

CostInputs(nt) ==
    {initialize_schedule(nt)} \cup
    {Replaced(initialize_schedule(nt), p[1], p[2], m) :
        p \in Positions(initialize_schedule(nt)), m \in Pairs(nt)}

InitCost ==
    /\ pc = "input"
    /\ num_teams \in 0..MaxCostTeams
    /\ teams_strength \in [1..num_teams -> Tiers]
    /\ costs \in CostTables
    /\ schedule \in CostInputs(num_teams)
    /\ n = 0
    /\ teams = <<>>
    /\ round_num = 0
    /\ bi = 0
    /\ round_matches = <<>>
    /\ valid = FALSE
    /\ cost = 0
    /\ edits = 0
    /\ SAIdle

\* evaluate_cost(schedule) is called and returns.
CallEvaluateCost ==
    /\ pc = "input"
    /\ cost' = evaluate_cost(schedule, num_teams, teams_strength, costs)
    /\ valid' = is_valid_schedule(schedule, num_teams)
    /\ pc' = "costed"
    /\ UNCHANGED <<saVars, num_teams, teams_strength, costs, schedule, buildVars, edits>>

NextCost == CallEvaluateCost

SpecCost == InitCost /\ [][NextCost]_vars

-----------------------------------------------------------------------------
(* generate_neighbor.                                                      *)

\* teams_in_round1 / teams_in_round2: the teams of a round's other matches.
TeamsExcept(rm, idx) ==
    {rm[k][s] : k \in (1..Len(rm)) \ {idx}, s \in {1, 2}}

\* "Check if swap would create conflicts", for match1 at (r1, m1) and match2
\* at (r2, m2).
SwapConflict(sch, r1, m1, r2, m2) ==
    \/ sch[r2][m2][1] \in TeamsExcept(sch[r1], m1)
    \/ sch[r2][m2][2] \in TeamsExcept(sch[r1], m1)
    \/ sch[r1][m1][1] \in TeamsExcept(sch[r2], m2)
    \/ sch[r1][m1][2] \in TeamsExcept(sch[r2], m2)

\* "Perform the swap".
Swapped(sch, r1, m1, r2, m2) ==
    [sch EXCEPT ![r1] = [@ EXCEPT ![m1] = sch[r2][m2]],
                ![r2] = [@ EXCEPT ![m2] = sch[r1][m1]]]

\* The flip written as (match[1], match[1]) (a mutant of Flipped).
FlippedAwayTwice(sch, r, m) ==
    [sch EXCEPT ![r] = [@ EXCEPT ![m] = <<sch[r][m][2], sch[r][m][2]>>]]

\* new_schedule[round_idx][match_idx] = (match[1], match[0]).
Flipped(sch, r, m) ==
    [sch EXCEPT ![r] = [@ EXCEPT ![m] = <<sch[r][m][2], sch[r][m][1]>>]]

-----------------------------------------------------------------------------
(* simulated_annealing.                                                    *)

\* temp *= cooling_rate, on fractions <<numerator, denominator>>.
Cooled(t, rate) == <<t[1] * rate[1], t[2] * rate[2]>>

\* random.random() < math.exp(-delta / temp) can come out true: the
\* exponential of a double is 0.0 below about -745.
CanAccept(delta, t) == delta * t[2] <= 745 * t[1]
\* The draw can fail even at delta = 0, as if the draw were compared with
\* <= against a probability taken below 1 (a mutant of CanReject).
CanRejectEqual(delta, t) == delta >= 0

\* ... and can come out false: the probability is below 1.
CanReject(delta, t) == delta > 0

\* best_cost is set back to a large sentinel at every pass, as if its
\* initialisation stood inside the loop (a mutant of BestCostAfter).
BestCostAfterReset(nc, cc, bc) == IF nc < cc /\ nc < 1000000 THEN nc ELSE 1000000

\* best_cost follows the cost of every neighbour processed, as if line 287
\* stood outside both tests (a mutant of BestCostAfter).
BestCostAfterLatest(nc, cc, bc) == nc

\* best_cost after one pass whose valid neighbour costs nc (lines 279-288).
BestCostAfter(nc, cc, bc) == IF nc < cc /\ nc < bc THEN nc ELSE bc

\* best_schedule after the same pass.
BestScheduleAfter(nc, cc, bc, ns, bs) == IF nc < cc /\ nc < bc THEN ns ELSE bs

CoolingRates == {<<k, RateDen>> : k \in 0..RateDen}

\* The state after SportsScheduler(num_teams, teams_strength, costs), as
\* simulated_annealing(initial_temp, cooling_rate, iterations) is called.
InitSA ==
    /\ pc = "sa_call"
    /\ num_teams \in 0..MaxTeams
    /\ teams_strength \in BlockStrengths(num_teams)
    /\ costs \in CostTables
    /\ schedule = initialize_schedule(num_teams)
    /\ n = 0
    /\ teams = <<>>
    /\ round_num = 0
    /\ bi = 0
    /\ round_matches = <<>>
    /\ valid = FALSE
    /\ cost = 0
    /\ edits = 0
    /\ initial_temp \in 0..MaxTemp
    /\ cooling_rate \in CoolingRates
    /\ iterations \in 0..MaxIterations
    /\ current_schedule = <<>>
    /\ current_cost = 0
    /\ best_schedule = <<>>
    /\ best_cost = 0
    /\ temp = <<0, 1>>
    /\ it = 0
    /\ new_schedule = <<>>
    /\ attempts = 0
    /\ rebuilds = 0
    /\ result = NoResult

cfgVars == <<num_teams, teams_strength, costs, initial_temp, cooling_rate, iterations>>
otherVars == <<buildVars, cost, edits>>

\* Lines 246-250: current_schedule = self.schedule and the first validation.
ValidateInitial ==
    /\ pc = "sa_call"
    /\ current_schedule' = schedule
    /\ valid' = is_valid_schedule(schedule, num_teams)
    /\ pc' = IF valid' THEN "begin" ELSE "rebuild"
    /\ UNCHANGED <<cfgVars, otherVars, schedule, current_cost, best_schedule, best_cost,
                   temp, it, new_schedule, attempts, rebuilds, result>>

\* The first failure returns (None, None) at once (a mutant of Rebuild).
RebuildSkipped ==
    /\ pc = "rebuild"
    /\ pc' = "failed"
    /\ result' = NoResult
    /\ UNCHANGED <<cfgVars, otherVars, schedule, valid, current_schedule, current_cost,
                   best_schedule, best_cost, temp, it, new_schedule, attempts, rebuilds>>

\* Lines 251-257: the schedule is built again and validated again; a second
\* failure returns (None, None).
Rebuild ==
    /\ pc = "rebuild"
    /\ schedule' = initialize_schedule(num_teams)
    /\ current_schedule' = schedule'
    /\ rebuilds' = rebuilds + 1
    /\ valid' = is_valid_schedule(schedule', num_teams)
    /\ pc' = IF valid' THEN "begin" ELSE "failed"
    /\ result' = NoResult
    /\ UNCHANGED <<cfgVars, otherVars, current_cost, best_schedule, best_cost,
                   temp, it, new_schedule, attempts>>

\* best_cost starts from a large sentinel instead of the initial cost (a
\* mutant of BeginSearch).
BeginSearchSentinel ==
    /\ pc = "begin"
    /\ current_cost' = evaluate_cost(current_schedule, num_teams, teams_strength, costs)
    /\ best_schedule' = current_schedule
    /\ best_cost' = 1000000
    /\ temp' = <<initial_temp, 1>>
    /\ it' = 0
    /\ pc' = "loop"
    /\ UNCHANGED <<cfgVars, otherVars, schedule, valid, current_schedule, new_schedule,
                   attempts, rebuilds, result>>

\* Lines 259-265.
BeginSearch ==
    /\ pc = "begin"
    /\ current_cost' = evaluate_cost(current_schedule, num_teams, teams_strength, costs)
    /\ best_schedule' = current_schedule
    /\ best_cost' = current_cost'
    /\ temp' = <<initial_temp, 1>>
    /\ it' = 0
    /\ pc' = "loop"
    /\ UNCHANGED <<cfgVars, otherVars, schedule, valid, current_schedule, new_schedule,
                   attempts, rebuilds, result>>

\* A pass of the loop begins; generate_neighbor copies its argument and
\* random.choice gives operation 1.
GenerateSwap ==
    /\ pc = "loop"
    /\ it < iterations
    /\ it' = it + 1
    /\ new_schedule' = current_schedule
    /\ attempts' = 0
    /\ pc' = "swap"
    /\ UNCHANGED <<cfgVars, otherVars, schedule, valid, current_schedule, current_cost,
                   best_schedule, best_cost, temp, rebuilds, result>>

\* The draws of lines 198-201 once the while loop has ended: two different
\* rounds <<round1_idx, round2_idx>>.
RoundDraws(sch) ==
    {q \in (1..Len(sch)) \X (1..Len(sch)) : q[1] # q[2]}

\* The draws of one pass of "for _ in range(max_attempts)" that reach line
\* 207: two different rounds and a match of each,
\* <<round1_idx, match1_idx, round2_idx, match2_idx>>.
SwapChoices(sch) ==
    UNION {{<<p[1], m1, p[2], m2>> : m1 \in 1..Len(sch[p[1]]), m2 \in 1..Len(sch[p[2]])} :
              p \in RoundDraws(sch)}

\* Lines 204-205 for the rounds drawn: random.randint(0, -1) raises
\* ValueError when one of the two has no match.
EmptyDraw(sch, r1, r2) == Len(sch[r1]) = 0 \/ Len(sch[r2]) = 0

\* One pass of "for _ in range(max_attempts)": the draws, then ValueError
\* (no round to draw, or a round drawn is empty), the conflict (continue) or
\* the swap (break).
SwapAttempt ==
    /\ pc = "swap"
    /\ attempts < max_attempts
    /\ \/ /\ \/ Len(new_schedule) = 0
                \/ {q \in RoundDraws(new_schedule) :
                       EmptyDraw(new_schedule, q[1], q[2])} # {}
          /\ pc' = "value_error"
          /\ UNCHANGED <<new_schedule, attempts>>
       \/ /\ {c \in SwapChoices(new_schedule) :
                 SwapConflict(new_schedule, c[1], c[2], c[3], c[4])} # {}
          /\ attempts' = attempts + 1
          /\ UNCHANGED <<pc, new_schedule>>
       \/ /\ \E c \in {d \in SwapChoices(new_schedule) :
                          ~SwapConflict(new_schedule, d[1], d[2], d[3], d[4])} :
                new_schedule' = Swapped(new_schedule, c[1], c[2], c[3], c[4])
          /\ pc' = "neighbor"
          /\ UNCHANGED attempts
    /\ UNCHANGED <<cfgVars, otherVars, schedule, valid, current_schedule, current_cost,
                   best_schedule, best_cost, temp, it, rebuilds, result>>

\* The while loop of lines 200-201 on a schedule of one round: every draw of
\* round2_idx equals round1_idx, and the loop goes round again.
Round2Redraw ==
    /\ pc = "swap"
    /\ attempts < max_attempts
    /\ Len(new_schedule) = 1
    /\ UNCHANGED vars

\* All max_attempts passes ended in continue: the unmodified copy is returned.
SwapExhausted ==
    /\ pc = "swap"
    /\ attempts >= max_attempts
    /\ pc' = "neighbor"
    /\ UNCHANGED <<cfgVars, otherVars, schedule, valid, current_schedule, current_cost,
                   best_schedule, best_cost, temp, it, new_schedule, attempts, rebuilds,
                   result>>

\* The flip with a copy that shares its rounds with the argument, as
\* list(schedule) would give: the write at line 240 reaches the caller's
\* schedule too (a mutant of GenerateFlip).
GenerateFlipShallow ==
    /\ pc = "loop"
    /\ it < iterations
    /\ it' = it + 1
    /\ attempts' = 0
    /\ IF Len(current_schedule) = 0
       THEN /\ pc' = "value_error"
            /\ new_schedule' = current_schedule
            /\ UNCHANGED current_schedule
       ELSE \E r \in 1..Len(current_schedule) :
               IF Len(current_schedule[r]) = 0
               THEN /\ pc' = "value_error"
                    /\ new_schedule' = current_schedule
                    /\ UNCHANGED current_schedule
               ELSE \E m \in 1..Len(current_schedule[r]) :
                       /\ new_schedule' = Flipped(current_schedule, r, m)
                       /\ current_schedule' = new_schedule'
                       /\ pc' = "neighbor"
    /\ UNCHANGED <<cfgVars, otherVars, schedule, valid, current_cost,
                   best_schedule, best_cost, temp, rebuilds, result>>

\* A pass of the loop begins; generate_neighbor copies its argument,
\* random.choice gives operation 2 and one match is flipped.
GenerateFlip ==
    /\ pc = "loop"
    /\ it < iterations
    /\ it' = it + 1
    /\ attempts' = 0
    /\ IF Len(current_schedule) = 0
       THEN /\ pc' = "value_error"
            /\ new_schedule' = current_schedule
       ELSE \E r \in 1..Len(current_schedule) :
               IF Len(current_schedule[r]) = 0
               THEN /\ pc' = "value_error"
                    /\ new_schedule' = current_schedule
               ELSE \E m \in 1..Len(current_schedule[r]) :
                       /\ new_schedule' = Flipped(current_schedule, r, m)
                       /\ pc' = "neighbor"
    /\ UNCHANGED <<cfgVars, otherVars, schedule, valid, current_schedule, current_cost,
                   best_schedule, best_cost, temp, rebuilds, result>>

\* Lines 271-299 for the neighbour at hand, when no exception is raised: an
\* invalid neighbour is skipped (continue); a cheaper one is accepted; any
\* other one is accepted or not by the draw; then the temperature cools.
ProcessNeighbor ==
    /\ pc = "neighbor"
    /\ valid' = is_valid_schedule(new_schedule, num_teams)
    /\ IF ~valid'
       THEN UNCHANGED <<current_schedule, current_cost, best_schedule, best_cost, temp>>
       ELSE LET neighbor_cost ==
                    evaluate_cost(new_schedule, num_teams, teams_strength, costs)
                delta == neighbor_cost - current_cost
            IN  /\ neighbor_cost < current_cost \/ temp[1] # 0
                /\ \/ /\ \/ neighbor_cost < current_cost
                         \/ neighbor_cost >= current_cost /\ CanAccept(delta, temp)
                      /\ current_schedule' = new_schedule
                      /\ current_cost' = neighbor_cost
                   \/ /\ neighbor_cost >= current_cost
                      /\ CanReject(delta, temp)
                      /\ UNCHANGED <<current_schedule, current_cost>>
                /\ best_cost' = BestCostAfter(neighbor_cost, current_cost, best_cost)
                /\ best_schedule' = BestScheduleAfter(neighbor_cost, current_cost,
                                                      best_cost, new_schedule, best_schedule)
                /\ temp' = Cooled(temp, cooling_rate)
    /\ pc' = "loop"
    /\ UNCHANGED <<cfgVars, otherVars, schedule, it, new_schedule, attempts, rebuilds,
                   result>>

\* Line 292 with temp = 0: -delta / temp raises ZeroDivisionError.
ZeroTemperature ==
    /\ pc = "neighbor"
    /\ is_valid_schedule(new_schedule, num_teams)
    /\ evaluate_cost(new_schedule, num_teams, teams_strength, costs) >= current_cost
    /\ temp[1] = 0
    /\ valid' = TRUE
    /\ pc' = "zero_division"
    /\ UNCHANGED <<cfgVars, otherVars, schedule, current_schedule, current_cost,
                   best_schedule, best_cost, temp, it, new_schedule, attempts, rebuilds,
                   result>>

\* Lines 305-311: the loop is over; the best schedule is validated, stored
\* and returned with its cost.
Finalize ==
    /\ pc = "loop"
    /\ it >= iterations
    /\ valid' = is_valid_schedule(best_schedule, num_teams)
    /\ schedule' = best_schedule
    /\ result' = [none |-> FALSE, schedule |-> best_schedule, cost |-> best_cost]
    /\ pc' = "done"
    /\ UNCHANGED <<cfgVars, otherVars, current_schedule, current_cost, best_schedule,
                   best_cost, temp, it, new_schedule, attempts, rebuilds>>

NextSA ==
    \/ ValidateInitial
    \/ Rebuild
    \/ BeginSearch
    \/ GenerateSwap
    \/ SwapAttempt
    \/ Round2Redraw
    \/ SwapExhausted
    \/ GenerateFlip
    \/ ProcessNeighbor
    \/ ZeroTemperature
    \/ Finalize

SpecSA == InitSA /\ [][NextSA]_vars

\* The call runs on while it can: nothing but the call itself stops it.
FairSpecSA == SpecSA /\ WF_vars(NextSA)

-----------------------------------------------------------------------------
(* simulated_annealing on a scheduler whose schedule attribute the caller  *)
(* has assigned: line 245 reads self.schedule, whatever it holds, and      *)
(* lines 247-257 validate it.  The constructor keeps its default tiers, a  *)
(* list of 18 entries, so identifiers up to 17 have a tier.                *)

\* Four teams in two rounds of three matches: in each round two of the teams
\* meet each other and the other two meet guests, whose identifiers (a, c, 6
\* and 7) are not below num_teams.
GuestSchedule(a, c) ==
    << << <<0, 1>>, <<2, a>>, <<3, 6>> >>,
       << <<0, 3>>, <<2, c>>, <<1, 7>> >> >>

\* The values of self.schedule at the call: the built schedule or, for four
\* teams, a schedule with guests.
AssignedSchedules(nt) ==
    {initialize_schedule(nt)} \cup
        (IF nt = 4 THEN {GuestSchedule(a, c) : a, c \in {4, 5}} ELSE {})

InitAssigned ==
    /\ pc = "sa_call"
    /\ num_teams \in 0..MaxTeams
    /\ teams_strength = DefaultStrength
    /\ costs \in CostTables
    /\ schedule \in AssignedSchedules(num_teams)
    /\ n = 0
    /\ teams = <<>>
    /\ round_num = 0
    /\ bi = 0
    /\ round_matches = <<>>
    /\ valid = FALSE
    /\ cost = 0
    /\ edits = 0
    /\ initial_temp \in 0..MaxTemp
    /\ cooling_rate \in CoolingRates
    /\ iterations \in 0..MaxIterations
    /\ current_schedule = <<>>
    /\ current_cost = 0
    /\ best_schedule = <<>>
    /\ best_cost = 0
    /\ temp = <<0, 1>>
    /\ it = 0
    /\ new_schedule = <<>>
    /\ attempts = 0
    /\ rebuilds = 0
    /\ result = NoResult

SpecAssigned == InitAssigned /\ [][NextSA]_vars

-----------------------------------------------------------------------------
(* generate_neighbor(schedule) called on its own, on the built schedule,   *)
(* on the built schedule with one match replaced by an arbitrary pair and  *)
(* on the built schedule with one round emptied.                           *)

\* The arguments of the call: the schedules of CostInputs, and the built
\* schedule with one round emptied.
NeighborInputs(nt) ==
    CostInputs(nt) \cup
    {[initialize_schedule(nt) EXCEPT ![r] = <<>>] :
        r \in 1..Len(initialize_schedule(nt))}

InitNeighbor ==
    /\ pc = "gn_call"
    /\ num_teams \in 0..MaxNeighborTeams
    /\ teams_strength \in BlockStrengths(num_teams)
    /\ costs \in CostTables
    /\ schedule \in NeighborInputs(num_teams)
    /\ n = 0
    /\ teams = <<>>
    /\ round_num = 0
    /\ bi = 0
    /\ round_matches = <<>>
    /\ valid = FALSE
    /\ cost = 0
    /\ edits = 0
    /\ SAIdle

\* Lines 187-194: the copy of the argument, and random.choice gives 1.
CallSwap ==
    /\ pc = "gn_call"
    /\ new_schedule' = schedule
    /\ attempts' = 0
    /\ pc' = "swap"
    /\ UNCHANGED <<cfgVars, otherVars, schedule, valid, current_schedule, current_cost,
                   best_schedule, best_cost, temp, it, rebuilds, result>>

\* Lines 187-190 and 234-240: the copy of the argument, random.choice gives
\* 2 and one match of the copy is flipped.
CallFlip ==
    /\ pc = "gn_call"
    /\ attempts' = 0
    /\ IF Len(schedule) = 0
       THEN /\ pc' = "value_error"
            /\ new_schedule' = schedule
       ELSE \E r \in 1..Len(schedule) :
               IF Len(schedule[r]) = 0
               THEN /\ pc' = "value_error"
                    /\ new_schedule' = schedule
               ELSE \E m \in 1..Len(schedule[r]) :
                       /\ new_schedule' = Flipped(schedule, r, m)
                       /\ pc' = "neighbor"
    /\ UNCHANGED <<cfgVars, otherVars, schedule, valid, current_schedule, current_cost,
                   best_schedule, best_cost, temp, it, rebuilds, result>>

NextNeighbor ==
    \/ CallSwap
    \/ SwapAttempt
    \/ Round2Redraw
    \/ SwapExhausted
    \/ CallFlip

SpecNeighbor == InitNeighbor /\ [][NextNeighbor]_vars

-----------------------------------------------------------------------------
(* Claims about initialize_schedule (SpecBuild).                           *)

Returned == pc \in {"constructed", "validated", "reported"}

\* C1: for every even numTeams in 2..MaxBuildTeams the built schedule has
\* numTeams - 1 rounds of numTeams / 2 matches each and is_valid_schedule
\* returns true on it.
C1_EvenBuild ==
    (num_teams >= 2 /\ num_teams % 2 = 0) =>
        /\ Returned =>
              /\ Len(schedule) = num_teams - 1
              /\ \A r \in 1..Len(schedule) : Len(schedule[r]) = num_teams \div 2
              /\ schedule = initialize_schedule(num_teams)
        /\ pc \in {"validated", "reported"} => valid

C1_Witness ==
    /\ pc = "validated"
    /\ num_teams = 8
    /\ valid
    /\ Len(schedule) = 7

\* C2: for every odd numTeams in 3..MaxBuildTeams the built schedule has
\* numTeams rounds of (numTeams - 1) / 2 matches each and is_valid_schedule
\* returns true on it.
C2_OddBuild ==
    (num_teams >= 3 /\ num_teams % 2 = 1 /\ pc = "validated") =>
        /\ Len(schedule) = num_teams
        /\ \A r \in 1..Len(schedule) : Len(schedule[r]) = (num_teams - 1) \div 2
        /\ valid

\* C6: constructing the scheduler with numTeams < 2 is signaled as an error
\* and no schedule is produced: the constructor returns only for numTeams >= 2.
C6_ConfigError == Returned => num_teams >= 2

-----------------------------------------------------------------------------
(* Claims about is_valid_schedule (SpecValid).                             *)

\* (1) as the claim words it: the team is in exactly one match of the round.
InExactlyOneMatch(team, rm) ==
    \E k \in 1..Len(rm) :
        /\ InMatch(team, rm[k])
        /\ \A j \in 1..Len(rm) : InMatch(team, rm[j]) => j = k

\* (1) amended: the team fills exactly one slot of the round.
InExactlyOneSlot(team, rm) ==
    \E k \in 1..Len(rm) : \E s \in {1, 2} :
        /\ rm[k][s] = team
        /\ \A j \in 1..Len(rm) : \A t \in {1, 2} :
              rm[j][t] = team => (j = k /\ t = s)

UnorderedPair(match) == {match[1], match[2]}

\* (2): no unordered pair occurs twice and there are numTeams (numTeams - 1) / 2.
EachPairOnce(sch, nt) ==
    /\ \A p, q \in Positions(sch) :
          UnorderedPair(sch[p[1]][p[2]]) = UnorderedPair(sch[q[1]][q[2]]) => p = q
    /\ 2 * Cardinality({UnorderedPair(sch[p[1]][p[2]]) : p \in Positions(sch)})
          = nt * (nt - 1)

\* Every match of the schedule is a pair of identifiers in [0, numTeams).
RealIds(sch, nt) ==
    \A p \in Positions(sch) :
        /\ sch[p[1]][p[2]][1] \in 0..(nt - 1)
        /\ sch[p[1]][p[2]][2] \in 0..(nt - 1)

\* C3 as claimed: for a list of rounds whose matches are pairs of identifiers
\* in [0, numTeams), is_valid_schedule returns true iff (1) every team is in
\* exactly one match of every round and (2) every unordered pair occurs once.
C3_ValidIffClaimed ==
    (pc = "checked" /\ RealIds(schedule, num_teams)) =>
        (valid <=>
            /\ \A r \in 1..Len(schedule) : \A t \in 0..(num_teams - 1) :
                  InExactlyOneMatch(t, schedule[r])
            /\ EachPairOnce(schedule, num_teams))

\* C3 amended: is_valid_schedule returns true iff (1) every team fills
\* exactly one match slot of every round and (2) every unordered pair occurs
\* once and their number is numTeams (numTeams - 1) / 2.
C3_ValidIffSlots ==
    pc = "checked" =>
        (valid <=>
            /\ \A r \in 1..Len(schedule) : \A t \in 0..(num_teams - 1) :
                  InExactlyOneSlot(t, schedule[r])
            /\ EachPairOnce(schedule, num_teams))

C3_Witness ==
    /\ pc = "checked"
    /\ valid
    /\ num_teams = 4
    /\ edits = 1
    /\ schedule # initialize_schedule(num_teams)

-----------------------------------------------------------------------------
(* Claims about evaluate_cost (SpecCost).                                  *)

\* The index the claim gives: 0, 1, 2, 3 for (S,S), (S,M), (M,S), (M,M),
\* here 1-based; 0 when either opponent is Weak.
ClaimIndex(cur, nxt) ==
    IF cur = "W" \/ nxt = "W" THEN 0
    ELSE 1 + (IF cur = "M" THEN 2 ELSE 0) + (IF nxt = "M" THEN 1 ELSE 0)

\* The adjacencies (team, r) in which the team has an opponent in both rounds.
Adjacencies(sch, nt) ==
    {a \in (0..(nt - 1)) \X (1..(Len(sch) - 1)) :
        /\ get_opponent(a[1], sch[a[2]]) # None
        /\ get_opponent(a[1], sch[a[2] + 1]) # None}

ClaimAmount(a, sch, st, ct) ==
    LET idx == ClaimIndex(st[get_opponent(a[1], sch[a[2]]) + 1],
                          st[get_opponent(a[1], sch[a[2] + 1]) + 1])
    IN  IF idx = 0 THEN 0 ELSE ct[st[a[1] + 1]][idx]

RECURSIVE ClaimSum(_, _, _, _)
ClaimSum(A, sch, st, ct) ==
    IF A = {} THEN 0
    ELSE LET a == CHOOSE x \in A : TRUE
         IN  ClaimAmount(a, sch, st, ct) + ClaimSum(A \ {a}, sch, st, ct)

\* C5: evaluate_cost returns the sum over every team and every adjacency in
\* which the team has both opponents of costs[tier(team)][index], 0 when
\* either opponent is Weak; with every team Weak the cost is 0.
C5_CostIsSum ==
    pc = "costed" =>
        /\ cost = ClaimSum(Adjacencies(schedule, num_teams), schedule,
                           teams_strength, costs)
        /\ (\A k \in 1..num_teams : teams_strength[k] = "W") => cost = 0

C5_Witness ==
    /\ pc = "costed"
    /\ num_teams = 4
    /\ costs = CustomCosts
    /\ valid
    /\ teams_strength = <<"S", "M", "M", "W">>
    /\ cost > 0

-----------------------------------------------------------------------------
(* Claims about simulated_annealing (SpecSA, FairSpecSA).                  *)

\* The call is in its search: past line 265 and not yet returned.
Searching == pc \in {"loop", "swap", "neighbor"}

\* The call has ended: it returned, or it raised.
Ended == pc \in {"done", "failed", "zero_division", "value_error"}

\* Both invariants of a round-robin schedule, stated on the schedule itself.
RoundRobin(sch, nt) ==
    /\ \A r \in 1..Len(sch) : \A t \in 0..(nt - 1) : InExactlyOneSlot(t, sch[r])
    /\ EachPairOnce(sch, nt)

\* C4: throughout a search run, every schedule that is the current or the
\* best schedule passes is_valid_schedule and has both round-robin
\* invariants, and so has the schedule a finished run returns.
C4_CurrentAndBestValid ==
    /\ (Searching \/ pc \in {"done", "zero_division", "value_error"}) =>
          /\ is_valid_schedule(current_schedule, num_teams)
          /\ is_valid_schedule(best_schedule, num_teams)
          /\ RoundRobin(current_schedule, num_teams)
          /\ RoundRobin(best_schedule, num_teams)
    /\ pc = "done" =>
          /\ valid
          /\ result.schedule = best_schedule
          /\ RoundRobin(result.schedule, num_teams)

C4_Witness ==
    /\ pc = "done"
    /\ num_teams = 4
    /\ it = 2
    /\ current_schedule # initialize_schedule(num_teams)
    /\ is_valid_schedule(current_schedule, num_teams)

\* C7: for numTeams >= 2 the call of simulated_annealing ends: no pass of
\* the attempt loop goes beyond max_attempts, a returned search has made
\* exactly `iterations` passes, and every run reaches its end.
C7_Terminates ==
    (num_teams >= 2) =>
        /\ [](attempts <= max_attempts)
        /\ [](pc = "done" => it = iterations)
        /\ <>Ended

\* C8: the best cost a finished run returns is at most evaluate_cost of the
\* untouched initial schedule.
C8_BestAtMostInitial ==
    pc = "done" =>
        /\ ~result.none
        /\ result.cost = best_cost
        /\ result.cost <= evaluate_cost(initialize_schedule(num_teams), num_teams,
                                        teams_strength, costs)

C8_Witness ==
    /\ pc = "done"
    /\ num_teams = 4
    /\ it = 2
    /\ costs = CustomCosts
    /\ result.cost > 0
    /\ result.cost = evaluate_cost(initialize_schedule(num_teams), num_teams,
                                   teams_strength, costs)

\* C9: during the search no step increases the recorded best cost.
C9_BestNeverIncreases ==
    [][Searching => best_cost' <= best_cost]_vars

C9_Witness ==
    /\ pc = "loop"
    /\ it = 2
    /\ num_teams = 4
    /\ initial_temp > 0
    /\ best_cost > 0
    /\ current_schedule # best_schedule

\* The schedule the constructor built fails validation.
InitialInvalid == ~is_valid_schedule(initialize_schedule(num_teams), num_teams)

\* C10: when the initial schedule fails validation the schedule is rebuilt
\* exactly once and validated again; when that fails too the call returns
\* (None, None) without a single pass of the search loop; a schedule that
\* passes goes on to the search, and a finished search returns a schedule
\* and a cost.
C10_RebuildOnceOrFail ==
    /\ rebuilds <= 1
    /\ (InitialInvalid /\ pc # "sa_call") => (pc = "rebuild" \/ rebuilds = 1)
    /\ ~InitialInvalid => rebuilds = 0
    /\ (rebuilds = 1 /\ ~is_valid_schedule(schedule, num_teams)) => pc = "failed"
    /\ (rebuilds = 1 /\ is_valid_schedule(schedule, num_teams)) => pc # "failed"
    /\ pc = "failed" =>
          /\ rebuilds = 1
          /\ ~valid
          /\ result.none
          /\ it = 0
          /\ best_schedule = <<>>
    /\ pc = "done" => (~result.none /\ result.schedule = best_schedule
                                    /\ result.cost = best_cost)

C10_Witness ==
    /\ pc = "failed"
    /\ num_teams = 3
    /\ rebuilds = 1
    /\ iterations = 2
    /\ schedule = initialize_schedule(3)

\* The neighbour at hand passes validation and does not cost less than the
\* current schedule: line 289 takes the else branch.
NotCheaperNeighbor ==
    /\ pc = "neighbor"
    /\ is_valid_schedule(new_schedule, num_teams)
    /\ evaluate_cost(new_schedule, num_teams, teams_strength, costs) >= current_cost

\* C11: in an iteration where the temperature is zero and the valid
\* neighbour is not strictly cheaper than the current schedule, the neighbour
\* is not accepted and the iteration completes normally: the step taken goes
\* back to the head of the loop with the current schedule and cost unchanged,
\* and no division by zero is raised.
C11_ZeroTempSkips ==
    [][(NotCheaperNeighbor /\ temp[1] = 0) =>
          /\ pc' = "loop"
          /\ pc' # "zero_division"
          /\ UNCHANGED <<current_schedule, current_cost>>]_vars

-----------------------------------------------------------------------------
(* Claims about generate_neighbor inside the search (SpecAssigned).        *)

\* The unordered pairs of round r of a schedule.
RoundPairs(sch, r) == {UnorderedPair(sch[r][k]) : k \in 1..Len(sch[r])}

\* Two schedules hold the same unordered pairs round by round.
SameRoundPairs(s1, s2) ==
    /\ Len(s1) = Len(s2)
    /\ \A r \in 1..Len(s1) : RoundPairs(s1, r) = RoundPairs(s2, r)

\* C12: generate_neighbor never mutates its input: no step of the call, for
\* either operator and whatever is drawn, changes the schedule passed in (the
\* driver's current schedule), and during the search the current schedule
\* changes only by becoming the neighbour at hand, which has passed
\* validation.
C12_InputNeverMutated ==
    [][/\ pc \in {"loop", "swap"} => current_schedule' = current_schedule
       /\ (Searching /\ current_schedule' # current_schedule) =>
              /\ pc = "neighbor"
              /\ current_schedule' = new_schedule
              /\ is_valid_schedule(new_schedule, num_teams)]_vars

\* generate_neighbor has returned a copy in which a cross-round swap moved
\* two matches, and the schedule passed in still differs from it.
C12_Witness ==
    /\ pc = "neighbor"
    /\ attempts < max_attempts
    /\ ~SameRoundPairs(new_schedule, current_schedule)
    /\ current_schedule = GuestSchedule(4, 5)
    /\ it = 1

-----------------------------------------------------------------------------
(* Claims about the acceptance rule (SpecAssigned).                        *)

\* The neighbour at hand passes validation: the pass goes on to line 276.
ValidNeighbor ==
    /\ pc = "neighbor"
    /\ is_valid_schedule(new_schedule, num_teams)

\* neighbor_cost of the pass.
NeighborCost == evaluate_cost(new_schedule, num_teams, teams_strength, costs)

\* C13: in a pass with a valid neighbour, a neighbour strictly cheaper than
\* the current schedule becomes the current schedule whatever the
\* temperature, and the best schedule and cost are replaced by the
\* neighbour's in that pass exactly when the neighbour is strictly cheaper
\* than the best cost so far; otherwise they are left as they were.
C13_CheaperAlwaysAccepted ==
    [][ValidNeighbor =>
          /\ NeighborCost < current_cost =>
                 /\ pc' = "loop"
                 /\ current_schedule' = new_schedule
                 /\ current_cost' = NeighborCost
          /\ IF NeighborCost < best_cost
             THEN best_schedule' = new_schedule /\ best_cost' = NeighborCost
             ELSE UNCHANGED <<best_schedule, best_cost>>]_vars

\* At temperature zero a swap has brought the cost from 9 down to 8, and the
\* cheaper neighbour is both the current and the best schedule.
C13_Witness ==
    /\ pc = "loop"
    /\ it = 1
    /\ initial_temp = 0
    /\ schedule = GuestSchedule(5, 4)
    /\ evaluate_cost(schedule, num_teams, teams_strength, costs) = 9
    /\ current_cost = 8
    /\ best_cost = 8
    /\ best_schedule = current_schedule
    /\ current_schedule = GuestSchedule(4, 5)

\* C14: a pass whose neighbour fails validation leaves the current schedule,
\* the current cost, the best schedule, the best cost and the temperature
\* unchanged and still counts as one of the passes; a pass whose neighbour
\* is valid multiplies the temperature by the cooling rate exactly once,
\* accepted or not, before the next pass.
C14_InvalidSkipsValidCools ==
    [][pc = "neighbor" =>
          /\ pc' = "loop"
          /\ it' = it
          /\ IF ValidNeighbor
             THEN temp' = Cooled(temp, cooling_rate)
             ELSE UNCHANGED <<current_schedule, current_cost, best_schedule,
                              best_cost, temp>>]_vars

-----------------------------------------------------------------------------
(* Claims about the home/away flip (SpecNeighbor).                         *)

\* s2 is s1 with the two teams of the match at position p in the other order
\* and nothing else changed.
OnlyOrderChangedAt(s1, s2, p) ==
    /\ Len(s2) = Len(s1)
    /\ \A r \in 1..Len(s1) : Len(s2[r]) = Len(s1[r])
    /\ s2[p[1]][p[2]] = <<s1[p[1]][p[2]][2], s1[p[1]][p[2]][1]>>
    /\ \A q \in Positions(s1) : q # p => s2[q[1]][q[2]] = s1[q[1]][q[2]]

\* C15: the home/away flip changes only the order of the two teams inside
\* one match: the schedule it returns holds the same unordered pairs in
\* every round as the schedule passed in, gets the same result from
\* is_valid_schedule and the same value from evaluate_cost.
C15_FlipKeepsPairsValidityCost ==
    [][(pc = "gn_call" /\ pc' = "neighbor") =>
          /\ \E p \in Positions(schedule) : OnlyOrderChangedAt(schedule, new_schedule', p)
          /\ SameRoundPairs(new_schedule', schedule)
          /\ is_valid_schedule(new_schedule', num_teams)
                 <=> is_valid_schedule(schedule, num_teams)
          /\ evaluate_cost(new_schedule', num_teams, teams_strength, costs)
                 = evaluate_cost(schedule, num_teams, teams_strength, costs)]_vars

\* A flip has returned a schedule that differs from its argument, holds the
\* same pairs and has a cost above zero.
C15_Witness ==
    /\ pc = "neighbor"
    /\ num_teams = 4
    /\ attempts = 0
    /\ new_schedule # schedule
    /\ SameRoundPairs(new_schedule, schedule)
    /\ costs = CustomCosts
    /\ is_valid_schedule(new_schedule, num_teams)
    /\ evaluate_cost(new_schedule, num_teams, teams_strength, costs) > 0

-----------------------------------------------------------------------------
(* Claims about the cross-round swap (SpecAssigned).                       *)

\* The draws of one attempt that pass the conflict check of lines 225-227.
FreeSwaps(sch) ==
    {c \in SwapChoices(sch) : ~SwapConflict(sch, c[1], c[2], c[3], c[4])}

\* C16: for even numTeams >= 4 the conflict check of the cross-round swap
\* fails on every attempt against any schedule that passes validation, so no
\* match moves between rounds; and in a search started from the built
\* schedule every round of the current schedule holds the same unordered
\* pairs as that round of the initial schedule, and the current cost and the
\* best cost equal the initial cost.
C16_SwapAlwaysConflicts ==
    (num_teams >= 4 /\ num_teams % 2 = 0) =>
        /\ (pc = "swap" /\ is_valid_schedule(new_schedule, num_teams)) =>
               FreeSwaps(new_schedule) = {}
        /\ (Searching /\ schedule = initialize_schedule(num_teams)) =>
               /\ SameRoundPairs(current_schedule, schedule)
               /\ current_cost = evaluate_cost(schedule, num_teams, teams_strength, costs)
               /\ best_cost = current_cost

-----------------------------------------------------------------------------
(* Claims about what is_valid_schedule accepts (SpecValid).                *)

\* The positions at which teams a and b meet.
Meetings(sch, a, b) ==
    {p \in Positions(sch) : UnorderedPair(sch[p[1]][p[2]]) = {a, b}}

\* C17: whenever is_valid_schedule returns true, every match of the schedule
\* consists of two distinct identifiers that are both in [0, numTeams), no
\* match with an identifier >= numTeams being accepted, and every unordered
\* pair of distinct teams meets in exactly one match.
C17_ValidMeansRealPairs ==
    (pc = "checked" /\ valid) =>
        /\ RealIds(schedule, num_teams)
        /\ \A p \in Positions(schedule) :
              schedule[p[1]][p[2]][1] # schedule[p[1]][p[2]][2]
        /\ \A a, b \in 0..(num_teams - 1) :
              a < b => Cardinality(Meetings(schedule, a, b)) = 1

-----------------------------------------------------------------------------
(* Claims about equal-cost neighbours (SpecAssigned).                      *)

\* C18: with a positive temperature a valid neighbour whose cost equals the
\* current cost, the unmodified copy a failed cross-round swap returns
\* included, is always accepted as the current schedule, and the best
\* schedule and the best cost are left unchanged by it.
C18_EqualCostAccepted ==
    [][(ValidNeighbor /\ temp[1] > 0 /\ NeighborCost = current_cost) =>
          /\ pc' = "loop"
          /\ current_schedule' = new_schedule
          /\ current_cost' = current_cost
          /\ UNCHANGED <<best_schedule, best_cost>>]_vars

\* A flipped neighbour of equal cost has become the current schedule at a
\* positive temperature, and the best schedule is still the initial one.
C18_Witness ==
    /\ pc = "loop"
    /\ it = 1
    /\ num_teams = 4
    /\ initial_temp = 1
    /\ attempts = 0
    /\ current_schedule = new_schedule
    /\ current_schedule # best_schedule
    /\ best_schedule = schedule
    /\ current_cost = best_cost
    /\ current_cost > 0

====
